---- MODULE Spec2Model ----
(***************************************************************************)
(* Model of src/map_gen.py: parse_logs(file_paths), the log-to-graph       *)
(* engine that turns game transcripts into a Mermaid "graph TD" listing.   *)
(*                                                                         *)
(* Text is modelled at character level: a string is a sequence of          *)
(* one-character strings, so strip(), startswith(), split(), lower() and   *)
(* the two regular expressions are computed, not assumed.  The two CJK     *)
(* characters of the exit marker and the six direction glyphs are written  *)
(* by code point ("u51FA" is U+51FA) and count as one character each.      *)
(* Indices are 0-based as in the source: At(lines, j) is lines[j].         *)
(***************************************************************************)
EXTENDS Integers, Sequences, FiniteSets

VARIABLES
    pc,             \* control position inside parse_logs
    file_paths,     \* the argument list: per path, how the file system answers
    file_idx,       \* number of paths the outer for loop has consumed
    lines,          \* lines of the transcript being processed (f.readlines())
    rooms,          \* rooms detected in the current transcript
    room_idx,       \* position of the node loop (for r in rooms)
    all_links,      \* links buffered across transcripts
    link_idx,       \* position of the link printing loop
    node_map,       \* insertion-ordered dict name -> identifier
    seen_links,     \* set of edge triples already printed
    out,            \* standard output, one record per printed line
    discovered      \* history: the distinct room names detected so far, in
                    \* the order of their first detection

vars == <<pc, file_paths, file_idx, lines, rooms, room_idx, all_links,
          link_idx, node_map, seen_links, out, discovered>>

----------------------------------------------------------------------------
(* Bounds of the model.                                                    *)

\* paths on the command line, and lines per transcript, of a run over
\* several transcripts
MaxFiles == 2
MaxLines == 4
\* lines of the transcript of a run over one transcript
MaxLinesOne == 5

----------------------------------------------------------------------------
(* Strings.                                                                *)

WHITESPACE == {" ", "\t", "\n", "\r"}
DIGITS == {"0", "1", "2", "3", "4", "5", "6", "7", "8", "9"}
UPPER == <<"A", "B", "C", "D", "E", "F", "G", "H", "I", "J", "K", "L", "M",
           "N", "O", "P", "Q", "R", "S", "T", "U", "V", "W", "X", "Y", "Z">>
LOWER == <<"a", "b", "c", "d", "e", "f", "g", "h", "i", "j", "k", "l", "m",
           "n", "o", "p", "q", "r", "s", "t", "u", "v", "w", "x", "y", "z">>

At(s, j) == s[j + 1]

RECURSIVE lstrip(_)
lstrip(s) == IF s # <<>> /\ Head(s) \in WHITESPACE THEN lstrip(Tail(s)) ELSE s

RECURSIVE rstrip(_)
rstrip(s) ==
    IF s # <<>> /\ s[Len(s)] \in WHITESPACE
    THEN rstrip(SubSeq(s, 1, Len(s) - 1))
    ELSE s

strip(s) == rstrip(lstrip(s))

startswith(s, prefix) ==
    Len(s) >= Len(prefix) /\ SubSeq(s, 1, Len(prefix)) = prefix

lower_char(c) ==
    IF \E k \in 1..Len(UPPER) : UPPER[k] = c
    THEN LOWER[CHOOSE k \in 1..Len(UPPER) : UPPER[k] = c]
    ELSE c

lower(s) == [k \in 1..Len(s) |-> lower_char(s[k])]

(* str.split(): the maximal runs of non-whitespace characters, in order.  *)
RECURSIVE split_from(_, _, _)
split_from(s, k, word) ==
    IF k > Len(s)
    THEN (IF word = <<>> THEN <<>> ELSE <<word>>)
    ELSE IF s[k] \in WHITESPACE
    THEN (IF word = <<>> THEN <<>> ELSE <<word>>) \o split_from(s, k + 1, <<>>)
    ELSE split_from(s, k + 1, Append(word, s[k]))

split(s) == split_from(s, 1, <<>>)

----------------------------------------------------------------------------
(* The regular expressions.  A matcher position is 1-based; 0 is failure. *)

(* a literal at position p *)
Lit(s, p, lit) ==
    IF p # 0 /\ p + Len(lit) - 1 <= Len(s) /\ SubSeq(s, p, p + Len(lit) - 1) = lit
    THEN p + Len(lit)
    ELSE 0

RECURSIVE SkipDigits(_, _)
SkipDigits(s, p) ==
    IF p <= Len(s) /\ s[p] \in DIGITS THEN SkipDigits(s, p + 1) ELSE p

\* \d+ at position p (greedy; what follows it is never a digit)
Num(s, p) ==
    IF p # 0 /\ p <= Len(s) /\ s[p] \in DIGITS THEN SkipDigits(s, p + 1) ELSE 0

\* \d+/\d+
Frac(s, p) == Num(s, Lit(s, Num(s, p), <<"/">>))

\* (?:mv|v)
MvOrV(s, p) ==
    IF Lit(s, p, <<"m", "v">>) # 0 THEN Lit(s, p, <<"m", "v">>) ELSE Lit(s, p, <<"v">>)

\* exit_pattern: ^\[ u51FA u53E3 :  ( . * ) \]$   (anchored; group 1 is greedy)
EXIT_MARK == <<"[", "u51FA", "u53E3", ":", " ">>

exit_pattern_match(line) ==
    /\ startswith(line, EXIT_MARK)
    /\ Len(line) >= Len(EXIT_MARK) + 1
    /\ line[Len(line)] = "]"

(* group(1) of the exit pattern *)
exit_group(line) == SubSeq(line, Len(EXIT_MARK) + 1, Len(line) - 1)

\* prompt_pattern: ^\(hp\d+/\d+ ma\d+/\d+ (?:mv|v)\d+/\d+ p\d+/\d+ . * ? \)$
\* q is the position after the last run of digits; the lazy wildcard takes
\* anything and the closing parenthesis is the last character of the line.
prompt_pattern_match(line) ==
    LET p1 == Frac(line, Lit(line, 1, <<"(", "h", "p">>))
        p2 == Frac(line, Lit(line, p1, <<" ", "m", "a">>))
        p3 == Frac(line, MvOrV(line, Lit(line, p2, <<" ">>)))
        q  == Num(line, Lit(line, Num(line, Lit(line, p3, <<" ", "p">>)), <<"/">>))
    IN  /\ q # 0
        /\ Len(line) >= q
        /\ line[Len(line)] = ")"

----------------------------------------------------------------------------
(* Constants of parse_logs.                                                *)

NAME_LIMIT == 30

None == <<>>

UNKNOWN == <<"U", "n", "k", "n", "o", "w", "n">>

MOVE_LABEL == <<"m", "o", "v", "e">>

COMMANDS_TO_IGNORE == {
    <<"l">>,
    <<"l", "o", "o", "k">>,
    <<"n">>,
    <<"s">>,
    <<"e">>,
    <<"w">>,
    <<"u">>,
    <<"d">>,
    <<"n", "o", "r", "t", "h">>,
    <<"s", "o", "u", "t", "h">>,
    <<"e", "a", "s", "t">>,
    <<"w", "e", "s", "t">>,
    <<"u", "p">>,
    <<"d", "o", "w", "n">>,
    <<"i">>,
    <<"i", "n", "v">>,
    <<"i", "n", "v", "e", "n", "t", "o", "r", "y">>,
    <<"s", "t", "a", "t">>,
    <<"s", "c", "o", "r", "e">>,
    <<"w", "a">>,
    <<"w", "h", "o">>,
    <<"s", "a", "y">>,
    <<"t", "e", "l", "l">>,
    <<"c", "h", "a", "t">>,
    <<"y">>,
    <<"y", "e", "s">>,
    <<"n", "o">>,
    <<"e", "m">>
}

MOVE_COMMANDS == {
    <<"n">>,
    <<"s">>,
    <<"e">>,
    <<"w">>,
    <<"u">>,
    <<"d">>,
    <<"n", "o", "r", "t", "h">>,
    <<"s", "o", "u", "t", "h">>,
    <<"e", "a", "s", "t">>,
    <<"w", "e", "s", "t">>,
    <<"u", "p">>,
    <<"d", "o", "w", "n">>
}

(* dir_map.get(move_cmd, move_cmd): a key of dir_map gives its glyph, any  *)
(* other command is returned as it is.                                     *)
dir_map_get(move_cmd) ==
    CASE move_cmd = <<"n">> -> <<"u5317">>
      [] move_cmd = <<"s">> -> <<"u5357">>
      [] move_cmd = <<"e">> -> <<"u6771">>
      [] move_cmd = <<"w">> -> <<"u897F">>
      [] move_cmd = <<"u">> -> <<"u4E0A">>
      [] move_cmd = <<"d">> -> <<"u4E0B">>
      [] OTHER -> move_cmd

----------------------------------------------------------------------------
(* Room Extractor: the body of `if exit_match:`.                           *)

(* n_line and not n_line.startswith('>>>') and len(n_line) < 30 *)
prompt_name_ok(n_line) ==
    /\ n_line # <<>>
    /\ ~startswith(n_line, <<">", ">", ">">>)
    /\ Len(n_line) < NAME_LIMIT

(* for k in range(j+1, i): the first acceptable line after the prompt *)
RECURSIVE prompt_forward_scan(_, _, _)
prompt_forward_scan(ls, k, i) ==
    IF k >= i
    THEN None
    ELSE IF prompt_name_ok(strip(At(ls, k)))
    THEN strip(At(ls, k))
    ELSE prompt_forward_scan(ls, k + 1, i)

(* not room_name and len(prev_line) < 30 and not prev_line.startswith('(') *)
(* and not prev_line.startswith('[')                                       *)
potential_name_ok(room_name, prev_line) ==
    /\ room_name = None
    /\ Len(prev_line) < NAME_LIMIT
    /\ ~startswith(prev_line, <<"(">>)
    /\ ~startswith(prev_line, <<"[">>)

\* backward_scan with the `break` after the prompt branch lost: the scan
\* goes on, and a prompt further from the exit declaration overrides the name
RECURSIVE backward_scan_on(_, _, _, _, _, _)
backward_scan_on(ls, i, j, last_end_index, potential_name_idx, room_name) ==
    IF j <= last_end_index
    THEN [room_name |-> room_name, potential_name_idx |-> potential_name_idx]
    ELSE LET prev_line == strip(At(ls, j)) IN
         IF prev_line = <<>>
         THEN backward_scan_on(ls, i, j - 1, last_end_index, potential_name_idx,
                               room_name)
         ELSE IF prompt_pattern_match(prev_line)
         THEN backward_scan_on(ls, i, j - 1, last_end_index, potential_name_idx,
                  IF prompt_forward_scan(ls, j + 1, i) # None
                  THEN prompt_forward_scan(ls, j + 1, i)
                  ELSE room_name)
         ELSE IF potential_name_ok(room_name, prev_line)
         THEN backward_scan_on(ls, i, j - 1, last_end_index, j, room_name)
         ELSE backward_scan_on(ls, i, j - 1, last_end_index, potential_name_idx,
                               room_name)

backward_scan_no_break(ls, i, j, last_end_index, potential_name_idx) ==
    backward_scan_on(ls, i, j, last_end_index, potential_name_idx, None)

(* for j in range(i-1, last_end_index, -1): the state of room_name and     *)
(* potential_name_idx when the loop ends.  room_name is only assigned on   *)
(* the prompt branch, which leaves the loop.                               *)
RECURSIVE backward_scan(_, _, _, _, _)
backward_scan(ls, i, j, last_end_index, potential_name_idx) ==
    IF j <= last_end_index
    THEN [room_name |-> None, potential_name_idx |-> potential_name_idx]
    ELSE LET prev_line == strip(At(ls, j)) IN
         IF prev_line = <<>>
         THEN backward_scan(ls, i, j - 1, last_end_index, potential_name_idx)
         ELSE IF prompt_pattern_match(prev_line)
         THEN [room_name |-> prompt_forward_scan(ls, j + 1, i),
               potential_name_idx |-> potential_name_idx]
         ELSE IF potential_name_ok(None, prev_line)
         THEN backward_scan(ls, i, j - 1, last_end_index, j)
         ELSE backward_scan(ls, i, j - 1, last_end_index, potential_name_idx)

(* l and not l.startswith('(') and not l.startswith('>') and not           *)
(* l.startswith('>>>')                                                     *)
fallback_name_ok(l) ==
    /\ l # <<>>
    /\ ~startswith(l, <<"(">>)
    /\ ~startswith(l, <<">">>)
    /\ ~startswith(l, <<">", ">", ">">>)

(* for j in range(last_end_index, i) *)
RECURSIVE fallback_scan(_, _, _)
fallback_scan(ls, j, i) ==
    IF j >= i
    THEN None
    ELSE IF fallback_name_ok(strip(At(ls, j)))
    THEN strip(At(ls, j))
    ELSE fallback_scan(ls, j + 1, i)

(* the name given to the exit declaration at line i *)
room_name_at(ls, i, last_end_index) ==
    LET b == backward_scan(ls, i, i - 1, last_end_index, -1)
        after_fallback ==
            IF b.room_name = None /\ b.potential_name_idx # -1
            THEN fallback_scan(ls, last_end_index, i)
            ELSE b.room_name
    IN  IF after_fallback = None THEN UNKNOWN ELSE after_fallback

(* for i, line in enumerate(lines): the rooms list when the loop ends *)
RECURSIVE scan_lines(_, _, _, _)
scan_lines(ls, i, last_end_index, rs) ==
    IF i >= Len(ls)
    THEN rs
    ELSE LET line == strip(At(ls, i)) IN
         IF line # <<>> /\ exit_pattern_match(line)
         THEN scan_lines(ls, i + 1, i,
                  Append(rs, [name  |-> room_name_at(ls, i, last_end_index),
                              exits |-> split(exit_group(line)),
                              index |-> i]))
         ELSE scan_lines(ls, i + 1, last_end_index, rs)

----------------------------------------------------------------------------
(* Link Builder: the body of `for i in range(len(rooms) - 1)`.             *)

(* cmd_line.split()[0] if cmd_line else "" *)
base_cmd_of(raw) ==
    LET cmd_line == lower(strip(raw))
    IN  IF cmd_line # <<>> THEN split(cmd_line)[1] ELSE <<>>

(* for j in range(room_a['index'], room_b['index']) *)
RECURSIVE find_move_cmd(_, _, _)
find_move_cmd(ls, j, stop) ==
    IF j >= stop
    THEN None
    ELSE IF base_cmd_of(At(ls, j)) \in MOVE_COMMANDS
    THEN base_cmd_of(At(ls, j))
    ELSE find_move_cmd(ls, j + 1, stop)

\* pair_links with the `elif room_a['name'] != room_b['name']` test lost
pair_links_always_move(ls, room_a, room_b) ==
    LET move_cmd == find_move_cmd(ls, room_a.index, room_b.index) IN
    IF room_a.name \in COMMANDS_TO_IGNORE \/ room_b.name \in COMMANDS_TO_IGNORE
    THEN <<>>
    ELSE IF move_cmd # None
    THEN << <<room_a.name, room_b.name, dir_map_get(move_cmd)>> >>
    ELSE << <<room_a.name, room_b.name, MOVE_LABEL>> >>

(* what one pair of consecutive rooms appends to all_links *)
pair_links(ls, room_a, room_b) ==
    LET move_cmd == find_move_cmd(ls, room_a.index, room_b.index) IN
    IF room_a.name \in COMMANDS_TO_IGNORE \/ room_b.name \in COMMANDS_TO_IGNORE
    THEN <<>>
    ELSE IF move_cmd # None
    THEN << <<room_a.name, room_b.name, dir_map_get(move_cmd)>> >>
    ELSE IF room_a.name # room_b.name
    THEN << <<room_a.name, room_b.name, MOVE_LABEL>> >>
    ELSE <<>>

RECURSIVE file_links(_, _, _)
file_links(ls, rs, i) ==
    IF i >= Len(rs) - 1
    THEN <<>>
    ELSE pair_links(ls, At(rs, i), At(rs, i + 1)) \o file_links(ls, rs, i + 1)

----------------------------------------------------------------------------
(* Inputs: the raw lines a transcript is made of, as f.readlines() returns *)
(* them, and the transcripts the model reads.                              *)

\* a blank line
L_BLANK ==
    <<" ", "\n">>

\* an exit declaration
L_EXIT ==
    <<"[", "u51FA", "u53E3", ":", " ", "n", " ", "s", "]", "\n">>

\* a status prompt
L_PROMPT ==
    <<"(", "h", "p", "1", "/", "1", " ", "m", "a", "1", "/", "1", " ",
          "v", "1", "/", "1", " ", "p", "1", "/", "1", ")", "\n">>

\* a room title
L_TEMPLE ==
    <<"T", "e", "m", "p", "l", "e", "\n">>

\* the movement command n, also a reserved token
L_N ==
    <<" ", " ", "n", "\n">>

\* first token is the movement command north, once lowered
L_NORTH ==
    <<"N", "o", "r", "t", "h", " ", "g", "a", "t", "e", "\n">>

\* a line behind the >>> marker
L_MARK ==
    <<">", ">", ">", " ", "x", "\n">>

\* a plain line of 31 characters
L_LONG ==
    <<"T", "h", "e", " ", "h", "a", "l", "l", " ", "i",
      "s", " ", "w", "i", "d", "e", " ", "a", "n", "d",
      " ", "v", "e", "r", "y", " ", "d", "a", "r", "k",
      ".", "\n">>

SeqsUpTo(S, n) == UNION {[1..k -> S] : k \in 0..n}

\* the transcripts of a run over several paths
Transcripts == SeqsUpTo({L_EXIT, L_TEMPLE, L_N}, MaxLines)

\* the transcripts of a run over one path: every line shape the Room
\* Extractor tells apart
LongTranscripts ==
    SeqsUpTo({L_BLANK, L_EXIT, L_PROMPT, L_N, L_NORTH, L_MARK, L_LONG},
             MaxLinesOne)

PathKinds == {"missing", "unreadable", "readable"}

----------------------------------------------------------------------------
(* Dictionary and output helpers.                                          *)

(* name in node_map *)
in_node_map(nm, name) == \E k \in 1..Len(nm) : nm[k].name = name

(* node_map[name] *)
node_id(nm, name) == nm[CHOOSE k \in 1..Len(nm) : nm[k].name = name].safe_id

names_of(rs) == [k \in 1..Len(rs) |-> rs[k].name]

\* history only: acc extended by the names not yet in it, in order
RECURSIVE first_seen(_, _)
first_seen(names, acc) ==
    IF names = <<>>
    THEN acc
    ELSE first_seen(Tail(names),
             IF \E k \in 1..Len(acc) : acc[k] = Head(names)
             THEN acc
             ELSE Append(acc, Head(names)))

----------------------------------------------------------------------------
(* parse_logs as a state machine.                                          *)

Start(paths) ==
    /\ pc = "start"
    /\ file_paths = paths
    /\ file_idx = 0
    /\ lines = <<>>
    /\ rooms = <<>>
    /\ room_idx = 0
    /\ all_links = <<>>
    /\ link_idx = 0
    /\ node_map = <<>>
    /\ seen_links = {}
    /\ out = <<>>
    /\ discovered = <<>>

\* __main__ calls parse_logs with at least one path
Init == \E paths \in UNION {[1..n -> PathKinds] : n \in 1..MaxFiles} : Start(paths)

InitOne == \E paths \in [1..1 -> PathKinds] : Start(paths)

(* print("graph TD") *)
PrintHeader ==
    /\ pc = "start"
    /\ out' = Append(out, [kind |-> "header"])
    /\ pc' = "files"
    /\ UNCHANGED <<file_paths, file_idx, lines, rooms, room_idx, all_links,
                   link_idx, node_map, seen_links, discovered>>

(* if not os.path.exists(file_path): continue *)
SkipMissing ==
    /\ pc = "files"
    /\ file_idx < Len(file_paths)
    /\ At(file_paths, file_idx) = "missing"
    /\ file_idx' = file_idx + 1
    /\ UNCHANGED <<pc, file_paths, lines, rooms, room_idx, all_links,
                   link_idx, node_map, seen_links, out, discovered>>

(* open() or readlines() raises OSError on a path that exists and cannot   *)
(* be read (a directory, no permission); nothing catches it.               *)
OpenFails ==
    /\ pc = "files"
    /\ file_idx < Len(file_paths)
    /\ At(file_paths, file_idx) = "unreadable"
    /\ pc' = "crashed"
    /\ UNCHANGED <<file_paths, file_idx, lines, rooms, room_idx, all_links,
                   link_idx, node_map, seen_links, out, discovered>>

(* lines = f.readlines(), then the whole `for i, line in enumerate(lines)` *)
ScanFile(inputs) ==
    /\ pc = "files"
    /\ file_idx < Len(file_paths)
    /\ At(file_paths, file_idx) = "readable"
    /\ \E content \in inputs :
          /\ lines' = content
          /\ rooms' = scan_lines(content, 0, 0, <<>>)
    /\ discovered' = first_seen(names_of(rooms'), discovered)
    /\ pc' = "link"
    /\ UNCHANGED <<file_paths, file_idx, room_idx, all_links, link_idx,
                   node_map, seen_links, out>>

(* the whole `for i in range(len(rooms) - 1)` *)
LinkRooms ==
    /\ pc = "link"
    /\ all_links' = all_links \o file_links(lines, rooms, 0)
    /\ room_idx' = 0
    /\ pc' = "nodes"
    /\ UNCHANGED <<file_paths, file_idx, lines, rooms, link_idx, node_map,
                   seen_links, out, discovered>>

\* is_new_node with the `name not in node_map` test lost
is_new_node_no_map_test(nm, name) == name \notin COMMANDS_TO_IGNORE

\* is_new_node with the `name not in COMMANDS_TO_IGNORE` test lost
is_new_node_no_reserved_test(nm, name) == ~in_node_map(nm, name)

(* if name not in COMMANDS_TO_IGNORE and name not in node_map *)
is_new_node(nm, name) == name \notin COMMANDS_TO_IGNORE /\ ~in_node_map(nm, name)

(* safe_id = f"node_{len(node_map)}": the identifier is its number *)
next_safe_id(nm) == Len(nm)

\* AddNode walking the rooms from the last to the first
AddNode_reversed ==
    /\ pc = "nodes"
    /\ room_idx < Len(rooms)
    /\ LET name == At(rooms, Len(rooms) - 1 - room_idx).name IN
         IF is_new_node(node_map, name)
         THEN /\ out' = Append(out, [kind |-> "node", id |-> next_safe_id(node_map),
                                     label |-> name])
              /\ node_map' = Append(node_map, [name |-> name,
                                               safe_id |-> next_safe_id(node_map)])
         ELSE UNCHANGED <<out, node_map>>
    /\ room_idx' = room_idx + 1
    /\ UNCHANGED <<pc, file_paths, file_idx, lines, rooms, all_links, link_idx,
                   seen_links, discovered>>

(* one iteration of `for r in rooms` *)
AddNode ==
    /\ pc = "nodes"
    /\ room_idx < Len(rooms)
    /\ LET name == At(rooms, room_idx).name IN
         IF is_new_node(node_map, name)
         THEN /\ out' = Append(out, [kind |-> "node", id |-> next_safe_id(node_map),
                                     label |-> name])
              /\ node_map' = Append(node_map, [name |-> name,
                                               safe_id |-> next_safe_id(node_map)])
         ELSE UNCHANGED <<out, node_map>>
    /\ room_idx' = room_idx + 1
    /\ UNCHANGED <<pc, file_paths, file_idx, lines, rooms, all_links, link_idx,
                   seen_links, discovered>>

(* `for r in rooms` is exhausted: back to `for file_path in file_paths`.   *)
(* lines and rooms are rebound before they are read again, so the model    *)
(* empties them here.                                                      *)
NextFile ==
    /\ pc = "nodes"
    /\ room_idx = Len(rooms)
    /\ file_idx' = file_idx + 1
    /\ lines' = <<>>
    /\ rooms' = <<>>
    /\ room_idx' = 0
    /\ pc' = "files"
    /\ UNCHANGED <<file_paths, all_links, link_idx, node_map, seen_links, out,
                   discovered>>

(* `for file_path in file_paths` is exhausted: seen_links = set() *)
StartLinks ==
    /\ pc = "files"
    /\ file_idx = Len(file_paths)
    /\ seen_links' = {}
    /\ link_idx' = 0
    /\ pc' = "links"
    /\ UNCHANGED <<file_paths, file_idx, lines, rooms, room_idx, all_links,
                   node_map, out, discovered>>

(* if start in node_map and end in node_map *)
link_resolves(nm, link) == in_node_map(nm, link[1]) /\ in_node_map(nm, link[2])

(* (id_start, id_end, label) *)
edge_of(nm, link) == <<node_id(nm, link[1]), node_id(nm, link[2]), link[3]>>

\* is_new_edge with the seen_links test lost
is_new_edge_always(seen, edge) == TRUE

(* if (id_start, id_end, label) not in seen_links *)
is_new_edge(seen, edge) == edge \notin seen

(* one iteration of `for start, end, label in all_links` *)
PrintLink ==
    /\ pc = "links"
    /\ link_idx < Len(all_links)
    /\ LET link == At(all_links, link_idx) IN
         IF link_resolves(node_map, link) /\ is_new_edge(seen_links, edge_of(node_map, link))
         THEN /\ out' = Append(out, [kind |-> "edge",
                                     from |-> edge_of(node_map, link)[1],
                                     to |-> edge_of(node_map, link)[2],
                                     label |-> link[3]])
              /\ seen_links' = seen_links \cup {edge_of(node_map, link)}
         ELSE UNCHANGED <<out, seen_links>>
    /\ link_idx' = link_idx + 1
    /\ UNCHANGED <<pc, file_paths, file_idx, lines, rooms, room_idx, all_links,
                   node_map, discovered>>

(* parse_logs returns *)
Finish ==
    /\ pc = "links"
    /\ link_idx = Len(all_links)
    /\ pc' = "done"
    /\ UNCHANGED <<file_paths, file_idx, lines, rooms, room_idx, all_links,
                   link_idx, node_map, seen_links, out, discovered>>

Next ==
    \/ PrintHeader
    \/ SkipMissing
    \/ OpenFails
    \/ ScanFile(Transcripts)
    \/ LinkRooms
    \/ AddNode
    \/ NextFile
    \/ StartLinks
    \/ PrintLink
    \/ Finish

Spec == Init /\ [][Next]_vars

\* the same program run on one path, reading a longer transcript
NextOne ==
    \/ PrintHeader
    \/ SkipMissing
    \/ OpenFails
    \/ ScanFile(LongTranscripts)
    \/ LinkRooms
    \/ AddNode
    \/ NextFile
    \/ StartLinks
    \/ PrintLink
    \/ Finish

SpecOne == InitOne /\ [][NextOne]_vars

----------------------------------------------------------------------------
(* Properties.                                                             *)

NodeLines == SelectSeq(out, LAMBDA o : o.kind = "node")
EdgeLines == SelectSeq(out, LAMBDA o : o.kind = "edge")
EdgeTriple(o) == <<o.from, o.to, o.label>>
Reserved(name) == name \in COMMANDS_TO_IGNORE
AllFilesDone == file_idx = Len(file_paths)
C1_NodeTable ==
    /\ \A k \in 1..Len(node_map) : node_map[k].safe_id = k - 1
    /\ \A k, m \in 1..Len(node_map) :
          node_map[k].name = node_map[m].name => k = m
    /\ Len(NodeLines) = Len(node_map)
    /\ \A k \in 1..Len(NodeLines) :
          /\ NodeLines[k].id = k - 1
          /\ NodeLines[k].label = node_map[k].name

C1_NodeKept ==
    /\ Len(node_map') >= Len(node_map)
    /\ \A k \in 1..Len(node_map) : node_map'[k] = node_map[k]

\* C1: at every point of a run each room name has at most one node
\* declaration and each identifier is printed at most once; the k-th
\* registered name (from 0) has identifier node_k, and a registered name
\* keeps its entry: it is never registered again and its identifier never
\* changes, whichever transcript detects it again.
C1_NodeUniqueness == [](C1_NodeTable) /\ [][C1_NodeKept]_vars

\* a room of the second transcript, already registered by the first, has
\* gone through the node loop
C1_Witness ==
    /\ pc = "nodes"
    /\ file_idx = 1
    /\ room_idx > 0
    /\ Len(node_map) >= 2
    /\ ~Reserved(rooms[room_idx].name)
    /\ \A m \in 1..(room_idx - 1) : rooms[m].name # rooms[room_idx].name
    /\ \E k \in 1..Len(node_map) :
          /\ node_map[k].name = rooms[room_idx].name
          /\ k < Len(node_map)

\* C2: no node declaration carries a reserved command token as its label,
\* and no edge declaration starts or ends at the identifier of a room whose
\* name is a reserved token, also when a room with a reserved name was
\* detected.
C2_ReservedExcluded ==
    /\ \A k \in 1..Len(NodeLines) : ~Reserved(NodeLines[k].label)
    /\ \A k \in 1..Len(EdgeLines) : \A m \in 1..Len(node_map) :
          node_map[m].safe_id \in {EdgeLines[k].from, EdgeLines[k].to}
              => ~Reserved(node_map[m].name)

\* a room with a reserved name was detected, and the run printed nodes
\* and edges for the other rooms
C2_Witness ==
    /\ pc = "done"
    /\ \E k \in 1..Len(discovered) : Reserved(discovered[k])
    /\ Len(NodeLines) >= 2
    /\ Len(EdgeLines) >= 1

\* C3: no (fromId, toId, label) triple is printed by two edge declarations,
\* however often the link was buffered.
C3_EdgeDedup ==
    \A k, m \in 1..Len(EdgeLines) :
        EdgeTriple(EdgeLines[k]) = EdgeTriple(EdgeLines[m]) => k = m

\* the same link was buffered twice and the run has printed its edges
C3_Witness ==
    /\ pc = "done"
    /\ \E k, m \in 1..Len(all_links) : k < m /\ all_links[k] = all_links[m]
    /\ Len(EdgeLines) >= 1

\* the names that may become nodes, in the order of their first detection
C4_Discovered == SelectSeq(discovered, LAMBDA n : ~Reserved(n))

RECURSIVE C4_FirstEdges(_, _)
C4_FirstEdges(links, acc) ==
    IF links = <<>>
    THEN acc
    ELSE C4_FirstEdges(Tail(links),
             IF ~link_resolves(node_map, Head(links))
                \/ \E k \in 1..Len(acc) : acc[k] = edge_of(node_map, Head(links))
             THEN acc
             ELSE Append(acc, edge_of(node_map, Head(links))))

C4_IsPrefix(s, t) == Len(s) <= Len(t) /\ SubSeq(t, 1, Len(s)) = s

\* C4: the output is the header, once and first, then the node declarations
\* in the order the names were first discovered (transcripts in argument
\* order, exit declarations in line order), then the edge declarations in
\* link discovery order; no edge precedes a node, and edges are printed only
\* after every transcript has been processed.
C4_OutputOrder ==
    /\ pc = "start" => out = <<>>
    /\ pc # "start" => Len(out) >= 1 /\ out[1].kind = "header"
    /\ \A k \in 2..Len(out) : out[k].kind # "header"
    /\ \A k, m \in 1..Len(out) :
          k < m => ~(out[k].kind = "edge" /\ out[m].kind = "node")
    /\ C4_IsPrefix([k \in 1..Len(NodeLines) |-> NodeLines[k].label],
                   C4_Discovered)
    /\ pc \in {"files", "links", "done"} =>
          Len(NodeLines) = Len(C4_Discovered)
    /\ Len(EdgeLines) >= 1 => AllFilesDone /\ pc \in {"links", "done"}
    /\ pc \in {"links", "done"} =>
          [k \in 1..Len(EdgeLines) |-> EdgeTriple(EdgeLines[k])]
              = C4_FirstEdges(SubSeq(all_links, 1, link_idx), <<>>)

\* two transcripts gave nodes, one transcript gave two of them, and edges
\* were printed
C4_Witness ==
    /\ pc = "done"
    /\ Len(file_paths) = 2
    /\ Len(NodeLines) >= 3
    /\ Len(EdgeLines) >= 2

\* C5: a path that is missing, or that exists and cannot be read, is
\* skipped: the loop moves to the next path, nothing is buffered, registered
\* or printed for it, and the run does not abort.
C5_BadPathSkipped ==
    [][(/\ pc = "files"
        /\ file_idx < Len(file_paths)
        /\ At(file_paths, file_idx) \in {"missing", "unreadable"})
       => (/\ pc' = "files"
           /\ file_idx' = file_idx + 1
           /\ UNCHANGED <<all_links, node_map, out>>)]_vars

C6_DirectionWords ==
    {<<"u5317">>, <<"u5357">>, <<"u6771">>, <<"u897F">>, <<"u4E0A">>, <<"u4E0B">>}

\* C6: the label of every buffered link is one of the six localized
\* direction words or the fallback label "move".
C6_LabelsLocalized ==
    \A m \in 1..Len(all_links) :
        all_links[m][3] \in C6_DirectionWords \cup {MOVE_LABEL}

\* C7: every detected room has a name of at most 30 characters, or the
\* sentinel name "Unknown".
C7_NameShort ==
    \A k \in 1..Len(rooms) :
        Len(rooms[k].name) <= 30 \/ rooms[k].name = UNKNOWN

C8_LastEnd(k) == IF k = 1 THEN 0 ELSE rooms[k - 1].index
C8_Prompts(k) ==
    {j \in (C8_LastEnd(k) + 1)..(rooms[k].index - 1) :
        prompt_pattern_match(strip(At(lines, j)))}
C8_Max(S) == CHOOSE x \in S : \A y \in S : y <= x
C8_Min(S) == CHOOSE x \in S : \A y \in S : x <= y
C8_Eligible(k) ==
    {m \in (C8_Max(C8_Prompts(k)) + 1)..(rooms[k].index - 1) :
        LET t == strip(At(lines, m))
        IN  t # <<>> /\ ~startswith(t, <<">", ">", ">">>) /\ Len(t) < 30}

\* C8: for an exit declaration at line i with the previous one (or the
\* transcript start) at lastEnd, when status prompts stand in
\* lastEnd+1..i-1 and, after the one closest to i, some line before i is
\* non-blank, does not start with ">>>" and is shorter than 30 characters,
\* the room name is the first such line.
C8_PromptAnchoredName ==
    pc \in {"link", "nodes"} =>
        \A k \in 1..Len(rooms) :
            (C8_Prompts(k) # {} /\ C8_Eligible(k) # {})
                => rooms[k].name = strip(At(lines, C8_Min(C8_Eligible(k))))

\* two status prompts stand before an exit declaration and a line after the
\* closer one names the room
C8_Witness ==
    /\ pc = "nodes"
    /\ \E k \in 1..Len(rooms) :
          /\ Cardinality(C8_Prompts(k)) >= 2
          /\ C8_Eligible(k) # {}

C9_Moved(k) ==
    \E j \in (rooms[k].index + 1)..(rooms[k + 1].index - 1) :
        LET t == lower(strip(At(lines, j)))
        IN  t # <<>> /\ split(t)[1] \in MOVE_COMMANDS
C9_Linked(k) ==
    /\ ~Reserved(rooms[k].name)
    /\ ~Reserved(rooms[k + 1].name)
    /\ (C9_Moved(k) \/ rooms[k].name # rooms[k + 1].name)
C9_LinkedPairs ==
    SelectSeq([k \in 1..(Len(rooms) - 1) |-> k], LAMBDA k : C9_Linked(k))

\* C9: of the consecutive room pairs (A, B) of a transcript, a pair with a
\* reserved name, or with equal names and no movement command between the
\* two exit declarations, buffers no link; every other pair buffers exactly
\* one link, from A to B, in pair order.
C9_OneLinkPerPair ==
    pc = "nodes" =>
        /\ Len(all_links) = Len(C9_LinkedPairs)
        /\ \A m \in 1..Len(all_links) :
              /\ all_links[m][1] = rooms[C9_LinkedPairs[m]].name
              /\ all_links[m][2] = rooms[C9_LinkedPairs[m] + 1].name

\* a transcript buffered a self-loop (a movement command between two rooms
\* of one name) and dropped a pair of equal names without a command
C9_Witness ==
    /\ pc = "nodes"
    /\ \E m \in 1..Len(all_links) : all_links[m][1] = all_links[m][2]
    /\ \E k \in 1..(Len(rooms) - 1) :
          /\ rooms[k].name = rooms[k + 1].name
          /\ ~Reserved(rooms[k].name)
          /\ ~C9_Moved(k)

\* C10: no room is named by the text of an exit declaration.
C10_NameNeverExitLine ==
    \A k \in 1..Len(rooms) : ~exit_pattern_match(rooms[k].name)

====
